---------------------------- MODULE Spec2Model ----------------------------
(***************************************************************************)
(* MovieWeb: users own movies, movies are enriched from the OMDb lookup,   *)
(* movies collect reviews.  The relational backend (src/data_models.py,    *)
(* driven by the routes of src/app.py) and the flat-file backend           *)
(* (src/datamanager/json_data_manager.py) are modelled as two state        *)
(* machines over the same module.                                          *)
(*                                                                         *)
(* The relational store is SQLite under SQLAlchemy: NOT NULL and UNIQUE    *)
(* are enforced at commit, FOREIGN KEY clauses are not (SQLite's default), *)
(* an INTEGER PRIMARY KEY is max(id)+1, and a column of INTEGER affinity   *)
(* keeps a text that is no number as text.  A request that raises is       *)
(* rolled back when the request ends.                                      *)
(***************************************************************************)
EXTENDS Integers, Sequences, FiniteSets, TLC

VARIABLES users, movies, reviews, last, data, user_counter

vars == <<users, movies, reviews, last, data, user_counter>>

---------------------------------------------------------------------------
(* Bounds of the model: the largest id the store hands out per table (ids  *)
(* grow as max(id)+1, so the bound caps the rows as well), the length of   *)
(* the flat file, the largest value of its counter and the movies of a     *)
(* user of the file.                                                       *)

MaxUsers == 1
MaxMovies == 2
MaxReviews == 1
MaxFileUsers == 3
MaxCounter == 3
MaxFileMovies == 1

---------------------------------------------------------------------------
(* Values *)

\* SQL NULL / Python None in a text column or a request argument
NULL == "NULL"

\* SQL NULL in an integer column (ids start at 1)
NoId == 0

\* str(n) for the ids of the model; SQLite's INTEGER affinity reads the text
\* back as the number, so an integer column compares by this text
Str(n) == <<"1", "2", "3", "4", "5", "6", "7", "8", "9">>[n]

Usernames == {"alice"}
Titles == {"Inception"}
\* the rating entered with a new movie, and the one entered with an update
Ratings == {"5"}
NewRatings == {"8"}
ReviewTexts == {"great"}
ReviewRatings == {"5"}

\* the JSON body of the list-add API: a key may be empty
BodyTitles == {"", "Inception"}
BodyYears == {"", "2010"}

\* names of the users handed to the flat-file backend
FileNames == {"alice", "bob"}

\* the ids a request may name
UserIds == {1, 2}
MovieIds == {1, 2}
ReviewIds == {1, 2}
FileIds == {Str(n) : n \in 1..MaxCounter}

---------------------------------------------------------------------------
(* Python dicts: functions from keys to values *)

EmptyDict == [k \in {} |-> ""]

\* d.get(k, default)
Get(d, k, default) == IF k \in DOMAIN d THEN d[k] ELSE default

\* {**a, **b}
Merge_right_only(a, b) == b

Merge(a, b) ==
    [k \in (DOMAIN a) \cup (DOMAIN b) |-> IF k \in DOMAIN b THEN b[k] ELSE a[k]]

---------------------------------------------------------------------------
(* fetch_movie_details: what the lookup can hand back.  {} on a request    *)
(* error; otherwise the JSON object of the response, which for an unknown  *)
(* title carries none of the fields the routes read.                       *)

OmdbNotFound == [Response |-> "False"]

OmdbMovie(title, genre, imdbid) ==
    [Title |-> title, Year |-> "2010", Genre |-> genre,
     Director |-> "Nolan", imdbID |-> imdbid]

fetch_movie_details ==
    {EmptyDict, OmdbNotFound,
     OmdbMovie("New Title", "Comedy", "tt1"),
     OmdbMovie("Inception", "Drama", "tt2")}

\* the imdbid values a route can be called with: <movie_id> of a URL is a
\* non-empty text; request.args.get('movie_id') may also be '' or None
UrlKeys == {"tt1", "tt2"}
ArgKeys == UrlKeys \cup {"", NULL}


---------------------------------------------------------------------------
(* The response to the last request: the operation, what it answered, the  *)
(* id of the row it created or resolved, and the rendered movie list.      *)

Response(op, result, id) == [op |-> op, result |-> result, id |-> id, view |-> <<>>]

NoRequest == Response("none", "", NoId)

Redirect == "redirect"
UserNotFound == "User not found."
MovieNotFound == "Movie not found."
ReviewNotFound == "Review not found."
DetailsNotFound == "Movie details not found."
NewDetailsNotFound == "New movie details not found."
IntegrityError == "IntegrityError"

---------------------------------------------------------------------------
(* The relational store *)

Ids(rows) == {x.id : x \in rows}

\* INTEGER PRIMARY KEY without AUTOINCREMENT: one more than the largest id
NextId(rows) ==
    IF rows = {} THEN 1
    ELSE (CHOOSE i \in Ids(rows) : \A j \in Ids(rows) : j <= i) + 1

\* the row of least id: the order SQLite returns unordered rows in
First(rows) == CHOOSE x \in rows : \A y \in rows : x.id <= y.id

\* User.query.get(user_id)
UserGet(user_id) == {u \in users : u.id = user_id}

\* User.movies = db.relationship('Movie', backref='user')
user_movies(user) == {m \in movies : m.user_id = user.id}

\* Movie.reviews = db.relationship('Review', backref='movie'): the join is
\* review.movie_id = movie.id
movie_reviews(movie) == {r \in reviews : r.movie_id = Str(movie.id)}

\* Movie.query.filter_by(imdbid=key)
filter_by_imdbid(key) == {m \in movies : m.imdbid = key}

\* Movie.get_reviews / Review.get_reviews_for_movie
get_reviews_for_movie(movie_id) == {r \in reviews : r.movie_id = Str(movie_id)}

\* nullable=False on every column of Movie but imdbid, and of Review
NotNullOK(U, M, R) ==
    /\ \A u \in U : u.username # NULL
    /\ \A m \in M : /\ m.title # NULL /\ m.year # NULL /\ m.genre # NULL
                    /\ m.rating # NULL /\ m.director # NULL
                    /\ m.user_id # NoId
    /\ \A r \in R : /\ r.user_id # NoId /\ r.movie_id # NULL
                    /\ r.review_text # NULL /\ r.rating # NULL

\* imdbid = db.Column(db.String(10), unique=True): no two rows share a value
\* that is not NULL ('' is a value)
UniqueOK_off(M) == TRUE

UniqueOK(M) ==
    \A m1, m2 \in M : (m1.id # m2.id /\ m1.imdbid # NULL) => m1.imdbid # m2.imdbid

\* db.session.commit(): the new rows are stored if every constraint holds and
\* the request answers ok; otherwise nothing is stored and it answers err
Commit(U, M, R, ok, err) ==
    IF NotNullOK(U, M, R) /\ UniqueOK(M)
    THEN /\ users' = U /\ movies' = M /\ reviews' = R /\ last' = ok
    ELSE /\ UNCHANGED <<users, movies, reviews>> /\ last' = err

\* db.session.delete of the users DU and the movies DM, as flushed: the rows
\* go, and a row that a relationship of a deleted row still holds has its
\* foreign key set to NULL (no cascade is configured on either relationship)
MoviesAfterDelete(DU, DM) ==
    {IF m.user_id \in Ids(DU) THEN [m EXCEPT !.user_id = NoId] ELSE m :
        m \in movies \ DM}

ReviewsAfterDelete(DM) ==
    {IF \E m \in DM : r \in movie_reviews(m) THEN [r EXCEPT !.movie_id = NULL] ELSE r :
        r \in reviews}


---------------------------------------------------------------------------
(* Users *)

\* POST /add_user -> User.add_user(username)
add_user(username) ==
    /\ NextId(users) <= MaxUsers
    /\ LET user == [id |-> NextId(users), username |-> username]
       IN  Commit(users \cup {user}, movies, reviews,
                  Response("add_user", Redirect, user.id),
                  Response("add_user", "An error occurred while adding a user", NoId))
    /\ UNCHANGED <<data, user_counter>>

\* POST /users/<user_id>/delete_user
delete_user(user_id) ==
    /\ IF UserGet(user_id) = {}
       THEN /\ last' = Response("delete_user", UserNotFound, NoId)
            /\ UNCHANGED <<users, movies, reviews>>
       ELSE LET user == First(UserGet(user_id))
                DM == user_movies(user)
            IN  Commit(users \ {user}, MoviesAfterDelete({user}, DM),
                       ReviewsAfterDelete(DM),
                       Response("delete_user", Redirect, user.id),
                       Response("delete_user",
                                "An error occurred while deleting a user", user.id))
    /\ UNCHANGED <<data, user_counter>>

\* User.delete_user(user_id): the user alone is deleted, nothing when absent
User_delete_user(user_id) ==
    /\ IF UserGet(user_id) = {}
       THEN /\ last' = Response("User.delete_user", "None", NoId)
            /\ UNCHANGED <<users, movies, reviews>>
       ELSE LET user == First(UserGet(user_id))
            IN  Commit(users \ {user}, MoviesAfterDelete({user}, {}), reviews,
                       Response("User.delete_user", "deleted", user.id),
                       Response("User.delete_user", IntegrityError, user.id))
    /\ UNCHANGED <<data, user_counter>>

---------------------------------------------------------------------------
(* Movies *)

\* Movie(title=title, year=year) appended to user.movies: the other columns
\* are not given
BareMovie(user, title, year) ==
    [id |-> NextId(movies), title |-> title, year |-> year, genre |-> NULL,
     rating |-> NULL, director |-> NULL, user_id |-> user.id, imdbid |-> NULL]

\* POST /api/users/<user_id>/movies with the JSON body {title, year}; the
\* route catches nothing, so a failed commit is a 500
add_user_movie(user_id, title, year) ==
    /\ IF UserGet(user_id) = {}
       THEN /\ last' = Response("add_user_movie", "404 User not found", NoId)
            /\ UNCHANGED <<users, movies, reviews>>
       ELSE IF title \in {NULL, ""} \/ year \in {NULL, ""}
       THEN /\ last' = Response("add_user_movie",
                                "400 Title and year are required", NoId)
            /\ UNCHANGED <<users, movies, reviews>>
       ELSE LET movie == BareMovie(First(UserGet(user_id)), title, year)
            IN  /\ NextId(movies) <= MaxMovies
                /\ Commit(users, movies \cup {movie}, reviews,
                          Response("add_user_movie", "Movie added successfully",
                                   movie.id),
                          Response("add_user_movie", "500 " \o IntegrityError, NoId))
    /\ UNCHANGED <<data, user_counter>>

\* if not movie_details
EnrichmentFailed_never(details) == FALSE

EnrichmentFailed(details) == DOMAIN details = {}

\* the Movie that add_movie builds
NewMovie_gateway_title(user_id, movie_title, movie_rating, movie_details) ==
    [id |-> NextId(movies),
     title |-> Get(movie_details, "Title", movie_title),
     year |-> Get(movie_details, "Year", ""),
     genre |-> Get(movie_details, "Genre", ""),
     rating |-> movie_rating,
     director |-> Get(movie_details, "Director", ""),
     user_id |-> user_id,
     imdbid |-> Get(movie_details, "imdbID", "")]

NewMovie(user_id, movie_title, movie_rating, movie_details) ==
    [id |-> NextId(movies),
     title |-> movie_title,
     year |-> Get(movie_details, "Year", ""),
     genre |-> Get(movie_details, "Genre", ""),
     rating |-> movie_rating,
     director |-> Get(movie_details, "Director", ""),
     user_id |-> user_id,
     imdbid |-> Get(movie_details, "imdbID", "")]

\* POST /users/<user_id>/add_movie; movie_details is what
\* fetch_movie_details(movie_title) returned
add_movie(user_id, movie_title, movie_rating, movie_details) ==
    /\ IF EnrichmentFailed(movie_details)
       THEN /\ last' = Response("add_movie", DetailsNotFound, NoId)
            /\ UNCHANGED <<users, movies, reviews>>
       ELSE LET movie == NewMovie(user_id, movie_title, movie_rating, movie_details)
            IN  /\ NextId(movies) <= MaxMovies
                /\ Commit(users, movies \cup {movie}, reviews,
                          Response("add_movie", Redirect, movie.id),
                          Response("add_movie",
                                   "An error occurred while adding a movie", NoId))
    /\ UNCHANGED <<data, user_counter>>

\* the assignments of update_movie to the resolved movie
UpdatedMovie_keep_title(movie, new_movie_details, new_rating) ==
    [movie EXCEPT
        !.year = Get(new_movie_details, "Year", movie.year),
        !.genre = Get(new_movie_details, "Genre", movie.genre),
        !.director = Get(new_movie_details, "Director", movie.director),
        !.imdbid = Get(new_movie_details, "imdbID", movie.imdbid),
        !.rating = new_rating]

UpdatedMovie(movie, new_movie_details, new_rating) ==
    [movie EXCEPT
        !.title = Get(new_movie_details, "Title", movie.title),
        !.year = Get(new_movie_details, "Year", movie.year),
        !.genre = Get(new_movie_details, "Genre", movie.genre),
        !.director = Get(new_movie_details, "Director", movie.director),
        !.imdbid = Get(new_movie_details, "imdbID", movie.imdbid),
        !.rating = new_rating]

\* POST /users/<user_id>/update_movie/<movie_id>: the movie is looked up by
\* imdbid among all movies; new_movie_details is what
\* fetch_movie_details(new_title) returns, asked only once the movie is found
update_movie(user_id, movie_id, new_title, new_rating, new_movie_details) ==
    /\ IF filter_by_imdbid(movie_id) = {}
       THEN /\ last' = Response("update_movie", MovieNotFound, NoId)
            /\ UNCHANGED <<users, movies, reviews>>
       ELSE LET movie == First(filter_by_imdbid(movie_id))
            IN  IF EnrichmentFailed(new_movie_details)
                THEN /\ last' = Response("update_movie", NewDetailsNotFound, movie.id)
                     /\ UNCHANGED <<users, movies, reviews>>
                ELSE Commit(users,
                            (movies \ {movie}) \cup
                              {UpdatedMovie(movie, new_movie_details, new_rating)},
                            reviews,
                            Response("update_movie", Redirect, movie.id),
                            Response("update_movie",
                                     "An error occurred while updating a movie",
                                     movie.id))
    /\ UNCHANGED <<data, user_counter>>

\* POST /users/<user_id>/delete_movie?movie_id=<movie_id>
delete_movie(user_id, movie_id) ==
    /\ IF UserGet(user_id) = {}
       THEN /\ last' = Response("delete_movie", UserNotFound, NoId)
            /\ UNCHANGED <<users, movies, reviews>>
       ELSE LET found == {m \in user_movies(First(UserGet(user_id))) :
                             m.imdbid = movie_id}
            IN  IF found = {}
                THEN /\ last' = Response("delete_movie", MovieNotFound, NoId)
                     /\ UNCHANGED <<users, movies, reviews>>
                ELSE LET movie_to_delete == First(found)
                     IN  Commit(users, MoviesAfterDelete({}, {movie_to_delete}),
                                ReviewsAfterDelete({movie_to_delete}),
                                Response("delete_movie", Redirect, movie_to_delete.id),
                                Response("delete_movie",
                                         "An error occurred while deleting a movie",
                                         movie_to_delete.id))
    /\ UNCHANGED <<data, user_counter>>

\* Movie.delete_movie(movie_id): the movie of that id is deleted, nothing
\* when absent
Movie_delete_movie(movie_id) ==
    LET found == {m \in movies : m.id = movie_id}
    IN  /\ IF found = {}
           THEN /\ last' = Response("Movie.delete_movie", "None", NoId)
                /\ UNCHANGED <<users, movies, reviews>>
           ELSE Commit(users, MoviesAfterDelete({}, found), ReviewsAfterDelete(found),
                       Response("Movie.delete_movie", "deleted", movie_id),
                       Response("Movie.delete_movie", IntegrityError, movie_id))
        /\ UNCHANGED <<data, user_counter>>

---------------------------------------------------------------------------
(* Movie list with details *)

\* rows in id order
RECURSIVE ById(_)
ById(rows) ==
    IF rows = {} THEN <<>> ELSE <<First(rows)>> \o ById(rows \ {First(rows)})

\* Movie.to_dict
to_dict(movie) ==
    [Id |-> movie.id, Title |-> movie.title, Year |-> movie.year,
     Genre |-> movie.genre, Director |-> movie.director, Rating |-> movie.rating]

\* combined_movie_data = {**movie.to_dict(), **movie_details}
combined_movie_data(movie, movie_details) == Merge(to_dict(movie), movie_details)

\* GET /users/<user_id>: one lookup per movie of the user, by its title;
\* the view keeps, beside each merged entry, the movie and the Gateway result
\* it was merged from
get_user_movies(user_id) ==
    /\ IF UserGet(user_id) = {}
       THEN last' = Response("get_user_movies", UserNotFound, NoId)
       ELSE LET listed == ById(user_movies(First(UserGet(user_id))))
            IN  \E fetched \in [1..Len(listed) -> fetch_movie_details] :
                  last' = [Response("get_user_movies", "movies.html", user_id)
                    EXCEPT !.view = [i \in 1..Len(listed) |->
                                [movie |-> listed[i],
                                 details |-> fetched[i],
                                 combined |-> combined_movie_data(listed[i],
                                                                  fetched[i])]]]
    /\ UNCHANGED <<users, movies, reviews, data, user_counter>>

---------------------------------------------------------------------------
(* Reviews *)

\* POST /users/<user_id>/add_review/<movie_id>: the movie is looked up by
\* imdbid, and the Review is built from the two URL values themselves
add_review(user_id, movie_id, review_text, rating) ==
    /\ IF UserGet(user_id) = {}
       THEN /\ last' = Response("add_review", UserNotFound, NoId)
            /\ UNCHANGED <<users, movies, reviews>>
       ELSE IF filter_by_imdbid(movie_id) = {}
       THEN /\ last' = Response("add_review", MovieNotFound, NoId)
            /\ UNCHANGED <<users, movies, reviews>>
       ELSE LET review == [id |-> NextId(reviews), user_id |-> user_id,
                           movie_id |-> movie_id, review_text |-> review_text,
                           rating |-> rating]
            IN  /\ NextId(reviews) <= MaxReviews
                /\ Commit(users, movies, reviews \cup {review},
                          Response("add_review", Redirect, review.id),
                          Response("add_review",
                                   "An error occurred while adding a review", NoId))
    /\ UNCHANGED <<data, user_counter>>

\* Review.add_review(user_id, movie_id, review_text, rating)
Review_add_review(user_id, movie_id, review_text, rating) ==
    LET review == [id |-> NextId(reviews), user_id |-> user_id,
                   movie_id |-> Str(movie_id), review_text |-> review_text,
                   rating |-> rating]
    IN  /\ NextId(reviews) <= MaxReviews
        /\ Commit(users, movies, reviews \cup {review},
                  Response("Review.add_review", "added", review.id),
                  Response("Review.add_review", IntegrityError, NoId))
        /\ UNCHANGED <<data, user_counter>>

\* POST /users/<user_id>/delete_review/<movie_id>/<review_id>
delete_review(user_id, movie_id, review_id) ==
    LET found == {r \in reviews : r.id = review_id}
    IN  /\ IF UserGet(user_id) = {}
           THEN /\ last' = Response("delete_review", UserNotFound, NoId)
                /\ UNCHANGED <<users, movies, reviews>>
           ELSE IF filter_by_imdbid(movie_id) = {}
           THEN /\ last' = Response("delete_review", MovieNotFound, NoId)
                /\ UNCHANGED <<users, movies, reviews>>
           ELSE IF found = {}
           THEN /\ last' = Response("delete_review", ReviewNotFound, NoId)
                /\ UNCHANGED <<users, movies, reviews>>
           ELSE Commit(users, movies, reviews \ found,
                       Response("delete_review", Redirect, review_id),
                       Response("delete_review",
                                "An error occurred while deleting a review",
                                review_id))
        /\ UNCHANGED <<data, user_counter>>

---------------------------------------------------------------------------
(* The flat-file backend: data is the array of the file, which every       *)
(* method loads before and saves after; user_counter is the class          *)
(* attribute, set to 1 when the class is defined, that is, per process.    *)

\* JSONDataManager.add_user(user)
JSON_add_user(user) ==
    /\ Len(data) < MaxFileUsers
    /\ user_counter <= MaxCounter
    /\ data' = Append(data, [user EXCEPT !.id = Str(user_counter)])
    /\ user_counter' = user_counter + 1
    /\ UNCHANGED <<users, movies, reviews, last>>

\* JSONDataManager.delete_user(user_id)
JSON_delete_user(user_id) ==
    /\ data' = SelectSeq(data, LAMBDA user : user.id # user_id)
    /\ UNCHANGED <<users, movies, reviews, last, user_counter>>

\* JSONDataManager.add_movie_to_user(user_id, movie): the movie goes to the
\* first user of that id, and ValueError is raised when there is none
JSON_add_movie_to_user(user_id, movie) ==
    LET found == {i \in 1..Len(data) : data[i].id = user_id}
    IN  /\ IF found = {}
           THEN /\ last' = Response("add_movie_to_user", "ValueError", NoId)
                /\ UNCHANGED data
           ELSE LET i == CHOOSE i \in found : \A j \in found : i <= j
                IN  /\ Len(data[i].movies) < MaxFileMovies
                    /\ data' = [data EXCEPT ![i].movies = Append(@, movie)]
                    /\ last' = Response("add_movie_to_user", "None", NoId)
        /\ UNCHANGED <<users, movies, reviews, user_counter>>

\* a new process imports the module: user_counter = 1, the file stays
JSON_new_process ==
    /\ user_counter' = 1
    /\ UNCHANGED <<users, movies, reviews, last, data>>

---------------------------------------------------------------------------
(* Specifications *)

Init ==
    /\ users = {}
    /\ movies = {}
    /\ reviews = {}
    /\ last = NoRequest
    /\ data = <<>>
    /\ user_counter = 1

\* the users and the movies: every route and method that writes either
Next ==
    \/ \E username \in Usernames : add_user(username)
    \/ \E user_id \in UserIds : delete_user(user_id)
    \/ \E user_id \in UserIds : User_delete_user(user_id)
    \/ \E user_id \in UserIds, title \in BodyTitles, year \in BodyYears :
          add_user_movie(user_id, title, year)
    \/ \E user_id \in UserIds, title \in Titles, rating \in Ratings,
          details \in fetch_movie_details :
          add_movie(user_id, title, rating, details)
    \/ \E user_id \in UserIds, key \in UrlKeys, title \in Titles,
          rating \in NewRatings, details \in fetch_movie_details :
          update_movie(user_id, key, title, rating, details)
    \/ \E user_id \in UserIds, key \in ArgKeys : delete_movie(user_id, key)

Spec == Init /\ [][Next]_vars

\* the reviews written by the routes, over the movies the enrichment
\* workflow creates
NextReviews ==
    \/ \E username \in Usernames : add_user(username)
    \/ \E user_id \in UserIds : delete_user(user_id)
    \/ \E user_id \in UserIds : User_delete_user(user_id)
    \/ \E user_id \in UserIds, title \in Titles, rating \in Ratings,
          details \in fetch_movie_details :
          add_movie(user_id, title, rating, details)
    \/ \E user_id \in UserIds, key \in ArgKeys : delete_movie(user_id, key)
    \/ \E user_id \in UserIds, key \in UrlKeys, text \in ReviewTexts,
          rating \in ReviewRatings :
          add_review(user_id, key, text, rating)
    \/ \E user_id \in UserIds, key \in UrlKeys, review_id \in ReviewIds :
          delete_review(user_id, key, review_id)

SpecReviews == Init /\ [][NextReviews]_vars

\* the same with Review.add_review and Movie.delete_movie, which no route
\* calls
NextDataModels ==
    \/ NextReviews
    \/ \E user_id \in UserIds, movie_id \in MovieIds, text \in ReviewTexts,
          rating \in ReviewRatings :
          Review_add_review(user_id, movie_id, text, rating)
    \/ \E movie_id \in MovieIds : Movie_delete_movie(movie_id)

SpecDataModels == Init /\ [][NextDataModels]_vars

\* the movie list of a user, over the movies the enrichment workflow creates
NextList ==
    \/ \E username \in Usernames : add_user(username)
    \/ \E user_id \in UserIds, title \in Titles, rating \in Ratings,
          details \in fetch_movie_details :
          add_movie(user_id, title, rating, details)
    \/ \E user_id \in UserIds : get_user_movies(user_id)

SpecList == Init /\ [][NextList]_vars

NextJSON ==
    \/ \E name \in FileNames :
          JSON_add_user([id |-> NULL, name |-> name, movies |-> <<>>])
    \/ \E user_id \in FileIds : JSON_delete_user(user_id)
    \/ \E user_id \in FileIds, title \in Titles :
          JSON_add_movie_to_user(user_id, [Title |-> title])
    \/ JSON_new_process

SpecJSON == Init /\ [][NextJSON]_vars

---------------------------------------------------------------------------
(* Properties *)

Store == <<users, movies, reviews>>

\* a Gateway result that is not the empty one
Populated(details) == DOMAIN details # {}

\* C1: once a deletion of user u is reported successful, no Movie has
\* user_id u and no Review names u or one of the Movies u owned
C1_DeleteUserLeavesNoResidue ==
    [][last'.op \in {"delete_user", "User.delete_user"} =>
       \A u \in UserIds :
            ((delete_user(u) \/ User_delete_user(u))
               /\ last'.result \in {Redirect, "deleted"})
            => LET former == {m \in movies : m.user_id = u}
               IN  /\ \A m \in movies' : m.user_id # u
                   /\ \A r \in reviews' :
                        /\ r.user_id # u
                        /\ \A m \in former : r.movie_id \notin {Str(m.id), m.imdbid}]_vars

\* C2: in the movie list, a key that the stored Movie and the Gateway result
\* both have carries the stored Movie's value, and a key only the Gateway has
\* carries the Gateway's
C2_LocalFieldsWin ==
    \A i \in DOMAIN last.view :
        LET entry == last.view[i]
            local == to_dict(entry.movie)
        IN  /\ \A k \in (DOMAIN local) \cap (DOMAIN entry.details) :
                 entry.combined[k] = local[k]
            /\ \A k \in (DOMAIN entry.details) \ (DOMAIN local) :
                 entry.combined[k] = entry.details[k]

\* what create-with-enrichment is to persist for (u, t, r, d): one new Movie,
\* titled as entered, described as the Gateway says, rated by the user
CreatedAsSpecified(u, t, r, d) ==
    \E m \in movies' :
       /\ m.id \notin Ids(movies)
       /\ movies' = movies \cup {m}
       /\ m.title = t
       /\ m.year = Get(d, "Year", "")
       /\ m.genre = Get(d, "Genre", "")
       /\ m.director = Get(d, "Director", "")
       /\ m.imdbid = Get(d, "imdbID", "")
       /\ m.rating = r
       /\ m.user_id = u

\* C3 as stated: every create-with-enrichment with a populated Gateway result
\* persists exactly one new Movie with the input title, the Gateway's year,
\* genre, director and imdbID, the user's rating and the owner's id
C3_CreatePersistsEnriched ==
    [][last'.op = "add_movie" =>
       \A u \in UserIds, t \in Titles, r \in Ratings, d \in fetch_movie_details :
            (add_movie(u, t, r, d) /\ Populated(d)) => CreatedAsSpecified(u, t, r, d)]_vars

\* C3 amended: it does so unless a stored Movie already has the imdbid the new
\* one would get (the Gateway's imdbID, '' when it has none); then the request
\* reports an error and no Movie is persisted
C3_CreatePersistsEnrichedUnlessDuplicate ==
    [][last'.op = "add_movie" =>
       \A u \in UserIds, t \in Titles, r \in Ratings, d \in fetch_movie_details :
            (add_movie(u, t, r, d) /\ Populated(d))
            => IF \E m \in movies : m.imdbid = Get(d, "imdbID", "")
               THEN /\ movies' = movies
                    /\ last'.result = "An error occurred while adding a movie"
               ELSE /\ CreatedAsSpecified(u, t, r, d)
                    /\ last'.result = Redirect]_vars

\* a Movie was created under a title that is not the one the Gateway gave
C3_Witness ==
    /\ last.op = "add_movie"
    /\ last.result = Redirect
    /\ \E m \in movies : /\ m.id = last.id
                         /\ m.title = "Inception"
                         /\ m.genre = "Comedy"
                         /\ m.imdbid = "tt1"

\* C4: when the Gateway returns the empty result, create-with-enrichment and
\* update-with-enrichment (of a resolved Movie) answer with their enrichment
\* error and leave users, movies and reviews as they were
C4_EmptyGatewayChangesNothing ==
    [][last'.op \in {"add_movie", "update_movie"} =>
       \A u \in UserIds, t \in Titles, d \in fetch_movie_details :
            ~Populated(d)
            => /\ \A r \in Ratings :
                    add_movie(u, t, r, d)
                    => (last'.result = DetailsNotFound /\ UNCHANGED Store)
               /\ \A r \in NewRatings, k \in UrlKeys :
                    (update_movie(u, k, t, r, d) /\ filter_by_imdbid(k) # {})
                    => (last'.result = NewDetailsNotFound /\ UNCHANGED Store)]_vars

\* an update resolved a Movie and was refused for want of details
C4_Witness ==
    /\ last.op = "update_movie"
    /\ last.result = NewDetailsNotFound
    /\ last.id \in Ids(movies)

\* the Gateway's value for a key it has, the Movie's own otherwise
Refreshed(details, key, own) == IF key \in DOMAIN details THEN details[key] ELSE own

\* what update-with-enrichment is to leave of the resolved Movie old: same id
\* and owner, the user's new rating, and the Gateway's title, year, genre,
\* director and imdbID
UpdatedAsSpecified(old, r, d) ==
    \E m \in movies' :
       /\ movies' = (movies \ {old}) \cup {m}
       /\ m.id = old.id
       /\ m.user_id = old.user_id
       /\ m.rating = r
       /\ m.title = Refreshed(d, "Title", old.title)
       /\ m.year = Refreshed(d, "Year", old.year)
       /\ m.genre = Refreshed(d, "Genre", old.genre)
       /\ m.director = Refreshed(d, "Director", old.director)
       /\ m.imdbid = Refreshed(d, "imdbID", old.imdbid)

\* C5 as stated: every update-with-enrichment that resolves a Movie and gets a
\* populated Gateway result overwrites title, year, genre, director and imdbId
\* with the Gateway's values and the rating with the new one, id and owner kept
C5_UpdateOverwritesFromGateway ==
    [][last'.op = "update_movie" =>
       \A u \in UserIds, k \in UrlKeys, t \in Titles, r \in NewRatings,
             d \in fetch_movie_details :
            (update_movie(u, k, t, r, d) /\ filter_by_imdbid(k) # {} /\ Populated(d))
            => UpdatedAsSpecified(First(filter_by_imdbid(k)), r, d)]_vars

\* C5 amended: it does so unless the Gateway's imdbID is the imdbid of another
\* stored Movie; then the request reports an error and every Movie keeps its
\* fields.  A key the Gateway result lacks keeps the Movie's value.
C5_UpdateOverwritesUnlessDuplicate ==
    [][last'.op = "update_movie" =>
       \A u \in UserIds, k \in UrlKeys, t \in Titles, r \in NewRatings,
             d \in fetch_movie_details :
            (update_movie(u, k, t, r, d) /\ filter_by_imdbid(k) # {} /\ Populated(d))
            => LET old == First(filter_by_imdbid(k))
               IN  IF \E m \in movies \ {old} : m.imdbid = Get(d, "imdbID", old.imdbid)
                   THEN /\ movies' = movies
                        /\ last'.result = "An error occurred while updating a movie"
                   ELSE /\ UpdatedAsSpecified(old, r, d)
                        /\ last'.result = Redirect]_vars

\* an update gave a Movie created as "Inception" the Gateway's title and imdbID
C5_Witness ==
    /\ last.op = "update_movie"
    /\ last.result = Redirect
    /\ \E m \in movies : /\ m.id = last.id
                         /\ m.title = "New Title"
                         /\ m.imdbid = "tt1"
                         /\ m.genre = "Comedy"
                         /\ m.rating = "8"

\* findMovieByImdbId: the first Movie with that imdbid, if any
findMovieByImdbId(imdbId) ==
    IF filter_by_imdbid(imdbId) = {} THEN {} ELSE {First(filter_by_imdbid(imdbId))}

\* C6: no two Movies carry the same non-empty imdbId, and findMovieByImdbId of
\* a Movie's non-empty imdbId returns that Movie
C6_ImdbIdIdentifiesOneMovie ==
    \A m \in movies :
       m.imdbid \notin {NULL, ""}
       => /\ findMovieByImdbId(m.imdbid) = {m}
          /\ \A other \in movies : other.imdbid = m.imdbid => other = m

\* an update that would have given a second Movie the imdbid "tt2" was refused
C6_Witness ==
    /\ last.op = "update_movie"
    /\ last.result = "An error occurred while updating a movie"
    /\ \E m1, m2 \in movies : m1.imdbid = "tt1" /\ m2.imdbid = "tt2"

\* C7: a list-add request for an existing owner with a non-empty title and
\* year stores exactly one more Movie of that owner, with that title and year
\* and without genre, director and imdbId
C7_BareCreationSucceeds ==
    [][last'.op = "add_user_movie" =>
       \A u \in UserIds, t \in BodyTitles, y \in BodyYears :
            (add_user_movie(u, t, y) /\ UserGet(u) # {} /\ t # "" /\ y # "")
            => \E m \in movies' :
                  /\ m.id \notin Ids(movies)
                  /\ movies' = movies \cup {m}
                  /\ m.user_id = u /\ m.title = t /\ m.year = y
                  /\ m.genre \in {NULL, ""}
                  /\ m.director \in {NULL, ""}
                  /\ m.imdbid \in {NULL, ""}]_vars

\* the list-add API has just handled a request that named an existing owner,
\* a title and a year
BareCreationHandled ==
    /\ last.op = "add_user_movie"
    /\ last.result \notin {"404 User not found", "400 Title and year are required"}

\* C8: right after a bare creation, an update-with-enrichment for which the
\* Gateway returns imdbID X (held by no Movie yet) resolves the bare Movie and
\* leaves it as the one Movie that findMovieByImdbId(X) returns
C8_BareMovieCanBeEnriched ==
    [][last'.op = "update_movie" =>
       \A u \in UserIds, k \in UrlKeys, t \in Titles, r \in NewRatings,
             d \in fetch_movie_details :
            (/\ BareCreationHandled
             /\ update_movie(u, k, t, r, d)
             /\ "imdbID" \in DOMAIN d
             /\ filter_by_imdbid(d["imdbID"]) = {})
            => /\ last'.result = Redirect
               /\ \E m \in movies' : /\ m.id \in Ids(movies)
                                     /\ {n \in movies' : n.imdbid = d["imdbID"]} = {m}]_vars

\* C9: a Review is created only for a user and a movie that exist: each new
\* Review's user_id is the id of a stored User and its movie_id the id of a
\* stored Movie
C9_ReviewReferencesExist ==
    [][last'.op \in {"add_review", "Review.add_review"}
         => \A r \in reviews' \ reviews :
               /\ r.user_id \in Ids(users)
               /\ \E m \in movies : r.movie_id = Str(m.id)]_vars

\* C10: no two stored users share an id, in the table and in the file
C10_UserIdsUnique ==
    /\ \A u1, u2 \in users : u1.id = u2.id => u1 = u2
    /\ \A i, j \in 1..Len(data) : i # j => data[i].id # data[j].id

\* C11: a Movie is created only for an owner that exists: a list-add or
\* create-with-enrichment request naming an owner id that is no User's answers
\* not-found and stores no Movie, so each new Movie's user_id is a User's id
C11_CreateMovieRequiresOwner ==
    [][last'.op \in {"add_user_movie", "add_movie"} =>
       /\ \A m \in movies' \ movies : m.user_id \in Ids(users)
       /\ \A u \in UserIds :
            (/\ UserGet(u) = {}
             /\ \/ \E t \in BodyTitles, y \in BodyYears : add_user_movie(u, t, y)
                \/ \E t \in Titles, r \in Ratings, d \in fetch_movie_details :
                      add_movie(u, t, r, d) /\ Populated(d))
            => /\ movies' = movies
               /\ last'.result \in {"404 User not found", UserNotFound}]_vars

\* C12: create-with-enrichment is refused for its imdbId only when that
\* imdbId is non-empty and a stored Movie has it; a Movie whose imdbId is
\* empty (the Gateway result has no imdbID) is created beside any others
C12_EmptyImdbIdsCoexist ==
    [][last'.op = "add_movie" =>
       \A u \in UserIds, t \in Titles, r \in Ratings, d \in fetch_movie_details :
            (add_movie(u, t, r, d) /\ Populated(d))
            => IF /\ Get(d, "imdbID", "") # ""
                  /\ \E m \in movies : m.imdbid = Get(d, "imdbID", "")
               THEN movies' = movies
               ELSE CreatedAsSpecified(u, t, r, d)]_vars

\* the Movie m is gone, every other Movie is as it was, and so is every
\* Review but those of m, which are gone
RemovedWithReviews(m) ==
    /\ movies' = movies \ {m}
    /\ reviews' = {r \in reviews : r.movie_id \notin {Str(m.id), m.imdbid}}

\* C13: a deletion of a Movie that is absent changes nothing and (on the
\* route) answers not-found; a deletion of a stored Movie removes it and all
\* of its Reviews in the same step
C13_DeleteMovieCascades ==
    [][last'.op \in {"delete_movie", "Movie.delete_movie"} =>
       /\ \A u \in UserIds, k \in ArgKeys :
            delete_movie(u, k)
            => LET owned == {m \in movies : /\ m.user_id \in Ids(UserGet(u))
                                            /\ m.imdbid = k}
               IN  IF owned = {}
                   THEN /\ UNCHANGED Store
                        /\ last'.result \in {UserNotFound, MovieNotFound}
                   ELSE RemovedWithReviews(First(owned))
       /\ \A i \in MovieIds :
            Movie_delete_movie(i)
            => IF i \notin Ids(movies)
               THEN UNCHANGED Store
               ELSE RemovedWithReviews(First({m \in movies : m.id = i}))]_vars

C15_UpdateTouchesOwnMoviesOnly ==
    [][last'.op = "update_movie" =>
       \A u \in UserIds, k \in UrlKeys, t \in Titles, r \in NewRatings,
             d \in fetch_movie_details :
            update_movie(u, k, t, r, d)
            => \A m \in movies : m.user_id # u => m \in movies']_vars

\* C16: a Review that the add_review route has just stored for the Movie of
\* imdbid k is among get_reviews_for_movie of that Movie's id
C16_ReviewListedForItsMovie ==
    [][last'.op = "add_review" =>
       \A u \in UserIds, k \in UrlKeys, t \in ReviewTexts, r \in ReviewRatings,
             i \in MovieIds :
            (/\ add_review(u, k, t, r)
             /\ last'.result = Redirect
             /\ filter_by_imdbid(k) # {}
             /\ i = First(filter_by_imdbid(k)).id)
            => \E new \in get_reviews_for_movie(i)' : new.id = last'.id]_vars

=============================================================================
